---- MODULE Spec2Model ----
(***************************************************************************)
(* charon-cmd connection builder (src/charon-cmd/cmd/cmd_connection.c).    *)
(*                                                                         *)
(* The builder (private_cmd_connection_t) is created once, filled by       *)
(* handle() calls, and consumed by the initiate() job that                 *)
(* cmd_connection_create() queued on the processor.                        *)
(***************************************************************************)
EXTENDS Integers, Sequences, FiniteSets, TLC

VARIABLES
    this,          \* private_cmd_connection_t: pid, local_ts, remote_ts, host, server, identity, key_seen, profile
    ownpid,        \* what getpid() returns in this process
    proc,          \* "running", or "exited" after exit(1)
    up,            \* the processor runs queued jobs ("up and running")
    pc,            \* the queued initiate job: "queued", "blocked", "returned", "done"
    runs,          \* number of times initiate() was entered
    entry,         \* the builder as initiate() found it when it was last entered, NULL_PTR before
    job_ret,       \* value returned by initiate(), NULL before it returned
    peer_cfg,      \* the peer_cfg_t built by initiate(), NULL before
    peer_destroys, \* number of peer_cfg->destroy() calls
    child_cfg,     \* the child_cfg_t built by initiate(), NULL before
    initiated,     \* arguments of the charon->controller->initiate() calls, in order
    ctrl_status,   \* status returned by charon->controller->initiate(), NULL before
    signals,       \* kill() calls, in order: [pid, sig]
    dbg,           \* DBG1 messages, in order
    ts_log,        \* the --local-ts/--remote-ts options handled so far, in order
    destroyed,     \* destroy() was called on the builder
    freed          \* the selectors destroy() destroyed with the lists, in order

vars == <<this, ownpid, proc, up, pc, runs, entry, job_ret, peer_cfg,
          peer_destroys, child_cfg, initiated, ctrl_status, signals, dbg,
          ts_log, destroyed, freed>>

\* a NULL char* or status
NULL == "NULL"
\* a NULL pointer to an object
NULL_PTR == [null |-> TRUE]

(***************************************************************************)
(* Bounds of the model.                                                    *)
(***************************************************************************)
\* at most this many --local-ts/--remote-ts options are handled in a run
MaxTs == 2
\* initiate() is entered at most this many times in a run
MaxRuns == 2

(***************************************************************************)
(* profile_t and the name table.                                           *)
(***************************************************************************)
PROF_UNDEF == 0
PROF_V2_PUB == 1
PROF_V2_EAP == 2
PROF_V2_PUB_EAP == 3
PROF_V1_PUB == 4
PROF_V1_XAUTH == 5
PROF_V1_XAUTH_PSK == 6
PROF_V1_HYBRID == 7

\* ENUM(profile_names, PROF_V2_PUB, PROF_V1_HYBRID, ...): the i-th name is
\* the name of the value PROF_V2_PUB + i - 1
profile_names ==
    << "ikev2-pub", "ikev2-eap", "ikev2-pub-eap", "ikev1-pub", "ikev1-xauth",
       "ikev1-xauth-psk", "ikev1-hybrid" >>

\* an enum_from_name() over a table that starts at the undefined value
enum_from_name_from_undef(name) ==
    IF \E i \in 1..Len(profile_names) : profile_names[i] = name
    THEN PROF_UNDEF + (CHOOSE i \in 1..Len(profile_names) : profile_names[i] = name) - 1
    ELSE -1

\* enum_from_name(profile_names, name): the value named, or -1
enum_from_name(name) ==
    IF \E i \in 1..Len(profile_names) : profile_names[i] = name
    THEN PROF_V2_PUB + (CHOOSE i \in 1..Len(profile_names) : profile_names[i] = name) - 1
    ELSE -1

(***************************************************************************)
(* Inputs.                                                                 *)
(***************************************************************************)
Pids == {4711}
Hosts == {"vpn.example.com", "gw.example.net"}
Servers == {"server.example.com"}
Identities == {"alice@example.com"}
ProfileArgs == {profile_names[i] : i \in 1..Len(profile_names)} \cup {"ikev3-pub"}
TsArgs == {"10.1.2.3/24", "0.0.0.0/0", "not-a-subnet"}
Ports == {500, 4500, 51234}
Statuses == {"SUCCESS", "FAILED"}

Opts == {"CMD_OPT_HOST", "CMD_OPT_REMOTE_IDENTITY", "CMD_OPT_IDENTITY",
         "CMD_OPT_RSA", "CMD_OPT_LOCAL_TS", "CMD_OPT_REMOTE_TS",
         "CMD_OPT_PROFILE", "CMD_OPT_HELP"}

ArgsOf(opt) ==
    CASE opt = "CMD_OPT_HOST" -> Hosts
      [] opt = "CMD_OPT_REMOTE_IDENTITY" -> Servers
      [] opt = "CMD_OPT_IDENTITY" -> Identities
      [] opt = "CMD_OPT_RSA" -> {"key.pem"}
      [] opt \in {"CMD_OPT_LOCAL_TS", "CMD_OPT_REMOTE_TS"} -> TsArgs
      [] opt = "CMD_OPT_PROFILE" -> ProfileArgs
      [] OTHER -> {NULL}

IKEV2_UDP_PORT == 500
IKEV2_NATT_PORT == 4500

(***************************************************************************)
(* Traffic selectors.  A selector is a record; addresses are four octets.  *)
(***************************************************************************)
Pow2(n) == IF n = 0 THEN 1 ELSE IF n = 1 THEN 2 ELSE IF n = 2 THEN 4
           ELSE IF n = 3 THEN 8 ELSE IF n = 4 THEN 16 ELSE IF n = 5 THEN 32
           ELSE IF n = 6 THEN 64 ELSE IF n = 7 THEN 128 ELSE 256

\* the subnet a text denotes: network address and prefix length, or NULL
\* when the text is no subnet
SubnetOf(string) ==
    CASE string = "10.0.0.0/8" -> [net |-> <<10, 0, 0, 0>>, bits |-> 8]
      [] string = "10.1.2.3/24" -> [net |-> <<10, 1, 2, 3>>, bits |-> 24]
      [] string = "0.0.0.0/0" -> [net |-> <<0, 0, 0, 0>>, bits |-> 0]
      [] OTHER -> NULL_PTR

\* number of host bits of a subnet that fall into octet i
HostBits(bits, i) ==
    LET k == bits - 8 * (i - 1)
    IN  IF k <= 0 THEN 8 ELSE IF k >= 8 THEN 0 ELSE 8 - k

\* traffic_selector_create_from_cidr(string, protocol, from_port, to_port)
traffic_selector_create_from_cidr(string, protocol, from_port, to_port) ==
    LET sn == SubnetOf(string)
    IN  IF sn = NULL_PTR THEN NULL_PTR
        ELSE [type |-> "TS_IPV4_ADDR_RANGE", protocol |-> protocol,
              dynamic |-> FALSE,
              from |-> [i \in 1..4 |->
                          (sn.net[i] \div Pow2(HostBits(sn.bits, i)))
                              * Pow2(HostBits(sn.bits, i))],
              to |-> [i \in 1..4 |->
                          (sn.net[i] \div Pow2(HostBits(sn.bits, i)))
                              * Pow2(HostBits(sn.bits, i))
                          + Pow2(HostBits(sn.bits, i)) - 1],
              from_port |-> from_port, to_port |-> to_port]

\* traffic_selector_create_dynamic(protocol, from_port, to_port)
traffic_selector_create_dynamic(protocol, from_port, to_port) ==
    [type |-> "TS_IPV4_ADDR_RANGE", protocol |-> protocol, dynamic |-> TRUE,
     from |-> <<0, 0, 0, 0>>, to |-> <<255, 255, 255, 255>>,
     from_port |-> from_port, to_port |-> to_port]

\* traffic_selector_create_from_string(protocol, type, from_addr, from_port,
\* to_addr, to_port), for addresses given as octets
traffic_selector_create_from_string(protocol, type, from_addr, from_port, to_addr, to_port) ==
    [type |-> type, protocol |-> protocol, dynamic |-> FALSE,
     from |-> from_addr, to |-> to_addr,
     from_port |-> from_port, to_port |-> to_port]

\* a cmd_connection_create() that does not seed the local list
cmd_connection_create_unseeded(pid) ==
    [pid |-> pid,
     local_ts |-> << >>,
     remote_ts |-> << >>,
     host |-> NULL, server |-> NULL, identity |-> NULL,
     key_seen |-> FALSE,
     profile |-> PROF_UNDEF]

(***************************************************************************)
(* cmd_connection_create(): the builder after INIT and the seeding of the  *)
(* local selector list.                                                    *)
(***************************************************************************)
cmd_connection_create(pid) ==
    [pid |-> pid,
     local_ts |-> << traffic_selector_create_dynamic(0, 0, 65535) >>,
     remote_ts |-> << >>,
     host |-> NULL, server |-> NULL, identity |-> NULL,
     key_seen |-> FALSE,
     profile |-> PROF_UNDEF]

(***************************************************************************)
(* Option handling.  Each operator returns the builder after the call,     *)
(* the diagnostics it printed, and whether it called exit(1).              *)
(***************************************************************************)
\* an insert_first() in the place of insert_last()
insert_first(list, ts) == << ts >> \o list

\* list->insert_last(list, ts)
insert_last(list, ts) == Append(list, ts)

\* add_ts(this, list, string); list is the name of the builder's list
add_ts(t, list, string) ==
    LET ts == traffic_selector_create_from_cidr(string, 0, 0, 65535)
    IN  IF ts = NULL_PTR
        THEN [this |-> t, exit |-> TRUE,
              dbg |-> << <<"invalid traffic selector: %s", string>> >>]
        ELSE [this |-> [t EXCEPT ![list] = insert_last(t[list], ts)],
              exit |-> FALSE, dbg |-> << >>]

\* a set_profile() that already refuses a profile whose key is missing
set_profile_early_check(t, name) ==
    LET profile == enum_from_name(name)
    IN  IF profile = -1
        THEN [this |-> t, exit |-> TRUE,
              dbg |-> << <<"unknown connection profile: %s", name>> >>]
        ELSE IF profile \in {PROF_V2_PUB, PROF_V2_PUB_EAP, PROF_V1_PUB, PROF_V1_XAUTH}
                /\ ~t.key_seen
        THEN [this |-> t, exit |-> TRUE,
              dbg |-> << <<"missing private key for profile %N", profile>> >>]
        ELSE [this |-> [t EXCEPT !.profile = profile],
              exit |-> FALSE, dbg |-> << >>]

\* a set_profile() that stores the value before it tests it
set_profile_store_first(t, name) ==
    LET profile == enum_from_name(name)
    IN  [this |-> [t EXCEPT !.profile = profile],
         exit |-> profile = -1,
         dbg |-> IF profile = -1
                 THEN << <<"unknown connection profile: %s", name>> >>
                 ELSE << >>]

\* set_profile(this, name)
set_profile(t, name) ==
    LET profile == enum_from_name(name)
    IN  IF profile = -1
        THEN [this |-> t, exit |-> TRUE,
              dbg |-> << <<"unknown connection profile: %s", name>> >>]
        ELSE [this |-> [t EXCEPT !.profile = profile],
              exit |-> FALSE, dbg |-> << >>]

Returned(t, ret) == [this |-> t, exit |-> FALSE, dbg |-> << >>, ret |-> ret]
Called(r) == [this |-> r.this, exit |-> r.exit, dbg |-> r.dbg, ret |-> TRUE]

\* handle(this, opt, arg)
handle(t, opt, arg) ==
    CASE opt = "CMD_OPT_HOST" -> Returned([t EXCEPT !.host = arg], TRUE)
      [] opt = "CMD_OPT_REMOTE_IDENTITY" -> Returned([t EXCEPT !.server = arg], TRUE)
      [] opt = "CMD_OPT_IDENTITY" -> Returned([t EXCEPT !.identity = arg], TRUE)
      [] opt = "CMD_OPT_RSA" -> Returned([t EXCEPT !.key_seen = TRUE], TRUE)
      [] opt = "CMD_OPT_LOCAL_TS" -> Called(add_ts(t, "local_ts", arg))
      [] opt = "CMD_OPT_REMOTE_TS" -> Called(add_ts(t, "remote_ts", arg))
      [] opt = "CMD_OPT_PROFILE" -> Called(set_profile(t, arg))
      [] OTHER -> Returned(t, FALSE)

(***************************************************************************)
(* The initiate job.                                                       *)
(***************************************************************************)
\* a terminate() that signals the process group instead of the stored pid
terminate_group(t) == << [pid |-> 0, sig |-> "SIGUSR1"] >>

\* terminate(this): the kill() calls it makes
terminate(t) == << [pid |-> t.pid, sig |-> "SIGUSR1"] >>

\* a version switch without the case PROF_UNDEF
ike_version_no_undef(profile) ==
    CASE profile \in {PROF_V2_PUB, PROF_V2_EAP, PROF_V2_PUB_EAP} -> "IKEV2"
      [] profile \in {PROF_V1_PUB, PROF_V1_XAUTH, PROF_V1_XAUTH_PSK, PROF_V1_HYBRID} -> "IKEV1"
      [] OTHER -> "IKE_ANY"

\* the switch on this->profile in create_peer_cfg(), version starting as
\* IKE_ANY
ike_version(profile) ==
    CASE profile \in {PROF_UNDEF, PROF_V2_PUB, PROF_V2_EAP, PROF_V2_PUB_EAP} -> "IKEV2"
      [] profile \in {PROF_V1_PUB, PROF_V1_XAUTH, PROF_V1_XAUTH_PSK, PROF_V1_HYBRID} -> "IKEV1"
      [] OTHER -> "IKE_ANY"

\* a remote port choice with the test inverted
remote_port_for_inverted(port) ==
    IF port = IKEV2_UDP_PORT THEN IKEV2_NATT_PORT ELSE IKEV2_UDP_PORT

\* the remote port create_peer_cfg() picks for a local port
remote_port_for(port) ==
    IF port # IKEV2_UDP_PORT THEN IKEV2_NATT_PORT ELSE IKEV2_UDP_PORT

\* create_peer_cfg(this), with the port charon->socket->get_port() returned
create_peer_cfg(t, port) ==
    [name |-> "cmd",
     ike_cfg |-> [version |-> ike_version(t.profile),
                  me |-> "0.0.0.0", my_port |-> port,
                  other |-> t.host, other_port |-> remote_port_for(port),
                  proposals |-> << "default PROTO_IKE" >>],
     keyingtries |-> 1, rekey_time |-> 36000, reauth_time |-> 0,
     jitter_time |-> 600, over_time |-> 600,
     mobike |-> TRUE, aggressive |-> FALSE,
     dpd_delay |-> 30, dpd_timeout |-> 0,
     virtual_ips |-> << "0.0.0.0" >>,
     auth_cfgs |-> << >>,
     child_cfgs |-> << >>]

\* an add_auth_cfg() that always takes the host as the remote identity
add_auth_cfg_host_id(t, peer, local, class) ==
    LET id == IF local THEN t.identity ELSE t.host
    IN  [peer EXCEPT !.auth_cfgs =
            Append(@, [local |-> local, class |-> class, identity |-> id])]

\* an add_auth_cfg() that puts the new entry in front of the list
add_auth_cfg_first(t, peer, local, class) ==
    LET id == IF local THEN t.identity
              ELSE IF t.server # NULL THEN t.server ELSE t.host
    IN  [peer EXCEPT !.auth_cfgs =
            << [local |-> local, class |-> class, identity |-> id] >> \o @]

\* add_auth_cfg(this, peer_cfg, local, class): the peer config afterwards
add_auth_cfg(t, peer, local, class) ==
    LET id == IF local THEN t.identity
              ELSE IF t.server # NULL THEN t.server ELSE t.host
    IN  [peer EXCEPT !.auth_cfgs =
            Append(@, [local |-> local, class |-> class, identity |-> id])]

\* an inference that ignores key_seen
infer_profile_pub(t) ==
    IF t.profile = PROF_UNDEF THEN PROF_V2_PUB ELSE t.profile

\* first step of add_auth_cfgs(): the profile after resolving PROF_UNDEF
infer_profile(t) ==
    IF t.profile = PROF_UNDEF
    THEN IF t.key_seen THEN PROF_V2_PUB ELSE PROF_V2_EAP
    ELSE t.profile

\* a key check that lost the case PROF_V1_XAUTH
needs_key_no_xauth(profile) ==
    profile \in {PROF_V2_PUB, PROF_V2_PUB_EAP, PROF_V1_PUB}

\* first switch of add_auth_cfgs(): the profiles that need a private key
needs_key(profile) ==
    profile \in {PROF_V2_PUB, PROF_V2_PUB_EAP, PROF_V1_PUB, PROF_V1_XAUTH}

\* second switch of add_auth_cfgs(): the add_auth_cfg() calls made for a
\* profile, in order, as <<local, class>>; the default branch makes none
auth_calls(profile) ==
    CASE profile = PROF_V2_PUB ->
            << <<TRUE, "AUTH_CLASS_PUBKEY">>, <<FALSE, "AUTH_CLASS_ANY">> >>
      [] profile = PROF_V2_EAP ->
            << <<TRUE, "AUTH_CLASS_EAP">>, <<FALSE, "AUTH_CLASS_ANY">> >>
      [] profile = PROF_V2_PUB_EAP ->
            << <<TRUE, "AUTH_CLASS_PUBKEY">>, <<TRUE, "AUTH_CLASS_EAP">>,
               <<FALSE, "AUTH_CLASS_ANY">> >>
      [] profile = PROF_V1_PUB ->
            << <<TRUE, "AUTH_CLASS_PUBKEY">>, <<FALSE, "AUTH_CLASS_PUBKEY">> >>
      [] profile = PROF_V1_XAUTH ->
            << <<TRUE, "AUTH_CLASS_PUBKEY">>, <<TRUE, "AUTH_CLASS_XAUTH">>,
               <<FALSE, "AUTH_CLASS_PUBKEY">> >>
      [] profile = PROF_V1_XAUTH_PSK ->
            << <<TRUE, "AUTH_CLASS_PSK">>, <<TRUE, "AUTH_CLASS_XAUTH">>,
               <<FALSE, "AUTH_CLASS_PSK">> >>
      [] profile = PROF_V1_HYBRID ->
            << <<TRUE, "AUTH_CLASS_XAUTH">>, <<FALSE, "AUTH_CLASS_PUBKEY">> >>
      [] OTHER -> << >>

\* the profiles the second switch of add_auth_cfgs() has a case for
has_case(profile) == profile \in PROF_V2_PUB..PROF_V1_HYBRID

RECURSIVE add_all(_, _, _)
\* the add_auth_cfg() calls of one case, made in order
add_all(t, peer, calls) ==
    IF calls = << >> THEN peer
    ELSE add_all(t, add_auth_cfg(t, peer, Head(calls)[1], Head(calls)[2]),
                 Tail(calls))

\* an add_auth_cfgs() that checks the key after it added the entries
add_auth_cfgs_late_check(t, peer) ==
    LET t1 == [t EXCEPT !.profile = infer_profile(t)]
        p1 == add_all(t1, peer, auth_calls(t1.profile))
    IN  IF ~has_case(t1.profile)
        THEN [ret |-> FALSE, this |-> t1, peer_cfg |-> peer, dbg |-> << >>]
        ELSE IF needs_key(t1.profile) /\ ~t1.key_seen
        THEN [ret |-> FALSE, this |-> t1, peer_cfg |-> p1,
              dbg |-> << <<"missing private key for profile %N", t1.profile>> >>]
        ELSE [ret |-> TRUE, this |-> t1, peer_cfg |-> p1, dbg |-> << >>]

\* an add_auth_cfgs() whose key check prints but does not return
add_auth_cfgs_no_return(t, peer) ==
    LET t1 == [t EXCEPT !.profile = infer_profile(t)]
        msg == IF needs_key(t1.profile) /\ ~t1.key_seen
               THEN << <<"missing private key for profile %N", t1.profile>> >>
               ELSE << >>
    IN  IF ~has_case(t1.profile)
        THEN [ret |-> FALSE, this |-> t1, peer_cfg |-> peer, dbg |-> msg]
        ELSE [ret |-> TRUE, this |-> t1,
              peer_cfg |-> add_all(t1, peer, auth_calls(t1.profile)),
              dbg |-> msg]

\* add_auth_cfgs(this, peer_cfg): the return value, the builder and the
\* peer config afterwards, and the diagnostics printed
add_auth_cfgs(t, peer) ==
    LET t1 == [t EXCEPT !.profile = infer_profile(t)]
    IN  IF needs_key(t1.profile) /\ ~t1.key_seen
        THEN [ret |-> FALSE, this |-> t1, peer_cfg |-> peer,
              dbg |-> << <<"missing private key for profile %N", t1.profile>> >>]
        ELSE IF ~has_case(t1.profile)
        THEN [ret |-> FALSE, this |-> t1, peer_cfg |-> peer, dbg |-> << >>]
        ELSE [ret |-> TRUE, this |-> t1,
              peer_cfg |-> add_all(t1, peer, auth_calls(t1.profile)),
              dbg |-> << >>]

\* the selector the remote side gets when none was given
default_remote_ts ==
    traffic_selector_create_from_string(0, "TS_IPV4_ADDR_RANGE",
        <<0, 0, 0, 0>>, 0, <<255, 255, 255, 255>>, 65535)

\* a remote default that is added whatever the list holds
remote_to_drain_always(list) == Append(list, default_remote_ts)

\* the remote list of create_child_cfg() before it is drained
remote_to_drain(list) ==
    IF Len(list) = 0 THEN insert_last(list, default_remote_ts) ELSE list

RECURSIVE drain(_, _)
\* a loop of remove_first()/add_traffic_selector(): the selectors of one
\* side of the child config once the list is empty
drain(list, attached) ==
    IF Len(list) = 0 THEN attached
    ELSE drain(Tail(list), Append(attached, Head(list)))

\* a create_child_cfg() that copies the selectors and leaves the lists
create_child_cfg_copy(t) ==
    [child_cfg |->
        [name |-> "cmd",
         lifetime |-> [life |-> 10800, rekey |-> 10200, jitter |-> 300],
         mode |-> "MODE_TUNNEL",
         proposals |-> << "default PROTO_ESP" >>,
         local_ts |-> drain(t.local_ts, << >>),
         remote_ts |-> drain(remote_to_drain(t.remote_ts), << >>)],
     this |-> t]

\* create_child_cfg(this): the child config and the builder afterwards
create_child_cfg(t) ==
    [child_cfg |->
        [name |-> "cmd",
         lifetime |-> [life |-> 10800, rekey |-> 10200, jitter |-> 300],
         mode |-> "MODE_TUNNEL",
         proposals |-> << "default PROTO_ESP" >>,
         local_ts |-> drain(t.local_ts, << >>),
         remote_ts |-> drain(remote_to_drain(t.remote_ts), << >>)],
     this |-> [t EXCEPT !.local_ts = << >>, !.remote_ts = << >>]]

\* initiate(this) up to the call of charon->controller->initiate(); call
\* tells whether that call is reached, and ret is the value returned when
\* it is not
initiate(t, port) ==
    IF t.host = NULL
    THEN [this |-> t, peer_cfg |-> NULL_PTR, child_cfg |-> NULL_PTR,
          destroys |-> 0, kills |-> terminate(t),
          dbg |-> << <<"unable to initiate, missing --host option">> >>,
          call |-> FALSE, ret |-> "JOB_REQUEUE_NONE"]
    ELSE IF t.identity = NULL
    THEN [this |-> t, peer_cfg |-> NULL_PTR, child_cfg |-> NULL_PTR,
          destroys |-> 0, kills |-> terminate(t),
          dbg |-> << <<"unable to initiate, missing --identity option">> >>,
          call |-> FALSE, ret |-> "JOB_REQUEUE_NONE"]
    ELSE LET a == add_auth_cfgs(t, create_peer_cfg(t, port))
             c == create_child_cfg(a.this)
         IN  IF ~a.ret
             THEN [this |-> a.this, peer_cfg |-> a.peer_cfg,
                   child_cfg |-> NULL_PTR, destroys |-> 1,
                   kills |-> terminate(a.this), dbg |-> a.dbg,
                   call |-> FALSE, ret |-> "JOB_REQUEUE_NONE"]
             ELSE [this |-> c.this,
                   peer_cfg |-> [a.peer_cfg EXCEPT !.child_cfgs =
                                    Append(@, c.child_cfg)],
                   child_cfg |-> c.child_cfg, destroys |-> 0,
                   kills |-> << >>, dbg |-> a.dbg,
                   call |-> TRUE, ret |-> NULL]

\* an initiate() that asks to be queued again when the controller failed
initiate_return_retry(t, status) ==
    [kills |-> IF status # "SUCCESS" THEN terminate(t) ELSE << >>,
     ret |-> IF status # "SUCCESS" THEN "JOB_REQUEUE_FAIR" ELSE "JOB_REQUEUE_NONE"]

\* initiate(this) after charon->controller->initiate() returned status
initiate_return(t, status) ==
    [kills |-> IF status # "SUCCESS" THEN terminate(t) ELSE << >>,
     ret |-> "JOB_REQUEUE_NONE"]

(***************************************************************************)
(* The state machine.                                                      *)
(***************************************************************************)
\* the program after cmd_connection_create(): the builder is set up and the
\* initiate job is queued; the processor does not run jobs yet
Init ==
    /\ ownpid \in Pids
    /\ this = cmd_connection_create(ownpid)
    /\ proc = "running"
    /\ up = FALSE
    /\ pc = "queued"
    /\ runs = 0
    /\ entry = NULL_PTR
    /\ job_ret = NULL
    /\ peer_cfg = NULL_PTR
    /\ peer_destroys = 0
    /\ child_cfg = NULL_PTR
    /\ initiated = << >>
    /\ ctrl_status = NULL
    /\ signals = << >>
    /\ dbg = << >>
    /\ ts_log = << >>
    /\ destroyed = FALSE
    /\ freed = << >>

IsTsOpt(opt) == opt \in {"CMD_OPT_LOCAL_TS", "CMD_OPT_REMOTE_TS"}

\* a main path that still handles options while the processor runs jobs
options_anytime == TRUE

\* when the main path handles options: before the daemon is up and the
\* processor runs jobs
options_phase == ~up

\* an owner that may destroy the builder whatever the job does
destroy_anytime == TRUE

\* when the owner destroys the builder: once the job it queued is done
destroy_phase == pc = "done"

\* one handle(opt, arg) call of the option dispatcher; options are handled
\* on the main path, before the daemon is up and the processor runs jobs
Handle(opt, arg) ==
    /\ proc = "running"
    /\ options_phase
    /\ ~destroyed
    /\ IsTsOpt(opt) => Len(ts_log) < MaxTs
    /\ LET r == handle(this, opt, arg)
       IN  /\ this' = r.this
           /\ dbg' = dbg \o r.dbg
           /\ proc' = IF r.exit THEN "exited" ELSE proc
           /\ ts_log' = IF IsTsOpt(opt) /\ ~r.exit
                        THEN Append(ts_log, <<opt, arg>>) ELSE ts_log
    /\ UNCHANGED <<ownpid, up, pc, runs, entry, job_ret, peer_cfg,
                   peer_destroys, child_cfg, initiated, ctrl_status, signals,
                   destroyed, freed>>

\* the daemon is up and running: the processor starts to run queued jobs
Start ==
    /\ proc = "running"
    /\ ~up
    /\ up' = TRUE
    /\ UNCHANGED <<this, ownpid, proc, pc, runs, entry, job_ret, peer_cfg,
                   peer_destroys, child_cfg, initiated, ctrl_status, signals,
                   dbg, ts_log, destroyed, freed>>

\* a worker runs the queued job: initiate() up to its return or to the
\* blocking call of the controller
Initiate(port) ==
    /\ proc = "running"
    /\ up
    /\ ~destroyed
    /\ pc = "queued"
    /\ runs < MaxRuns
    /\ LET r == initiate(this, port)
       IN  /\ this' = r.this
           /\ peer_cfg' = r.peer_cfg
           /\ child_cfg' = r.child_cfg
           /\ peer_destroys' = peer_destroys + r.destroys
           /\ signals' = signals \o r.kills
           /\ dbg' = dbg \o r.dbg
           /\ initiated' = IF r.call
                           THEN Append(initiated, [peer_cfg |-> r.peer_cfg,
                                                   child_cfg |-> r.child_cfg])
                           ELSE initiated
           /\ pc' = IF r.call THEN "blocked" ELSE "returned"
           /\ job_ret' = r.ret
    /\ runs' = runs + 1
    /\ entry' = this
    /\ UNCHANGED <<ownpid, proc, up, ctrl_status, ts_log, destroyed, freed>>

\* charon->controller->initiate() returns and initiate() runs to its end
ControllerReturn(status) ==
    /\ proc = "running"
    /\ pc = "blocked"
    /\ LET r == initiate_return(this, status)
       IN  /\ signals' = signals \o r.kills
           /\ job_ret' = r.ret
    /\ ctrl_status' = status
    /\ pc' = "returned"
    /\ UNCHANGED <<this, ownpid, proc, up, runs, entry, peer_cfg,
                   peer_destroys, child_cfg, initiated, dbg, ts_log, destroyed, freed>>

\* the processor looks at the value the job returned: a job that asks for
\* it is queued again, any other is done
JobReturn ==
    /\ proc = "running"
    /\ pc = "returned"
    /\ pc' = IF job_ret = "JOB_REQUEUE_NONE" THEN "done" ELSE "queued"
    /\ UNCHANGED <<this, ownpid, proc, up, runs, entry, job_ret, peer_cfg,
                   peer_destroys, child_cfg, initiated, ctrl_status, signals,
                   dbg, ts_log, destroyed, freed>>

\* destroy(this), called once the job is done: both lists are destroyed
\* with the selectors they hold
Destroy ==
    /\ proc = "running"
    /\ destroy_phase
    /\ ~destroyed
    /\ this' = [this EXCEPT !.local_ts = << >>, !.remote_ts = << >>]
    /\ freed' = freed \o this.local_ts \o this.remote_ts
    /\ destroyed' = TRUE
    /\ UNCHANGED <<ownpid, proc, up, pc, runs, entry, job_ret, peer_cfg,
                   peer_destroys, child_cfg, initiated, ctrl_status, signals,
                   dbg, ts_log>>

Next ==
    \/ \E opt \in Opts : \E arg \in ArgsOf(opt) : Handle(opt, arg)
    \/ Start
    \/ \E port \in Ports : Initiate(port)
    \/ \E status \in Statuses : ControllerReturn(status)
    \/ JobReturn
    \/ Destroy

Spec == Init /\ [][Next]_vars

(***************************************************************************)
(* Properties.                                                             *)
(***************************************************************************)
\* initiate() was entered
Ran == entry # NULL_PTR
\* initiate() returned
Finished == pc \in {"returned", "done"}
\* the controller was called
Invoked == Len(initiated) >= 1
\* the <<local, class>> pairs of an authentication list, in order
Sides(auth_cfgs) ==
    [i \in 1..Len(auth_cfgs) |-> <<auth_cfgs[i].local, auth_cfgs[i].class>>]
\* the DBG1 message of the key check was printed
MissingCredential ==
    \E i \in 1..Len(dbg) : dbg[i][1] = "missing private key for profile %N"
\* the DBG1 message of a missing --host or --identity was printed
MissingRequiredOption ==
    \E i \in 1..Len(dbg) :
        dbg[i][1] \in {"unable to initiate, missing --host option",
                       "unable to initiate, missing --identity option"}
\* the one kill() a failing run makes
OneSignal == << [pid |-> ownpid, sig |-> "SIGUSR1"] >>
\* the profiles the specification lists as requiring a credential
CredentialProfiles == {PROF_V2_PUB, PROF_V2_PUB_EAP, PROF_V1_PUB, PROF_V1_XAUTH}

\* the table of section 4.2 of the specification
C1_Table(p) ==
    CASE p = PROF_V2_PUB -> << <<TRUE, "AUTH_CLASS_PUBKEY">>, <<FALSE, "AUTH_CLASS_ANY">> >>
      [] p = PROF_V2_EAP -> << <<TRUE, "AUTH_CLASS_EAP">>, <<FALSE, "AUTH_CLASS_ANY">> >>
      [] p = PROF_V2_PUB_EAP -> << <<TRUE, "AUTH_CLASS_PUBKEY">>, <<TRUE, "AUTH_CLASS_EAP">>, <<FALSE, "AUTH_CLASS_ANY">> >>
      [] p = PROF_V1_PUB -> << <<TRUE, "AUTH_CLASS_PUBKEY">>, <<FALSE, "AUTH_CLASS_PUBKEY">> >>
      [] p = PROF_V1_XAUTH -> << <<TRUE, "AUTH_CLASS_PUBKEY">>, <<TRUE, "AUTH_CLASS_XAUTH">>, <<FALSE, "AUTH_CLASS_PUBKEY">> >>
      [] p = PROF_V1_XAUTH_PSK -> << <<TRUE, "AUTH_CLASS_PSK">>, <<TRUE, "AUTH_CLASS_XAUTH">>, <<FALSE, "AUTH_CLASS_PSK">> >>
      [] p = PROF_V1_HYBRID -> << <<TRUE, "AUTH_CLASS_XAUTH">>, <<FALSE, "AUTH_CLASS_PUBKEY">> >>
C1_Version(p) == IF p \in {PROF_V2_PUB, PROF_V2_EAP, PROF_V2_PUB_EAP} THEN "IKEV2" ELSE "IKEV1"

\* C1: whenever auth assembly succeeds for one of the seven named profiles,
\* the ordered (side, method) entries of the peer config and its IKE
\* version are exactly those of the table of section 4.2; nothing else is
\* appended.
C1_ProfileTable ==
    \A p \in PROF_V2_PUB..PROF_V1_HYBRID :
        (Invoked /\ entry.profile = p) =>
            /\ this.profile = p
            /\ Sides(peer_cfg.auth_cfgs) = C1_Table(p)
            /\ peer_cfg.ike_cfg.version = C1_Version(p)
            /\ Sides(initiated[1].peer_cfg.auth_cfgs) = C1_Table(p)
            /\ initiated[1].peer_cfg.ike_cfg.version = C1_Version(p)
C1_Witness ==
    /\ Invoked
    /\ entry.profile = PROF_V1_XAUTH
    /\ Len(peer_cfg.auth_cfgs) = 3

\* C2 as stated: a credential-requiring profile requested without a
\* credential makes the workflow fail with MissingCredential whatever the
\* other inputs (host and local identity included) are.
C2_Original ==
    (Finished /\ entry.profile \in CredentialProfiles /\ ~entry.key_seen)
        => MissingCredential
\* C2 as amended: such a run always fails without calling the controller;
\* it fails with MissingCredential when host and local identity are set,
\* and with the missing-option failure, which is checked first, when one of
\* them is not.
C2_MissingCredential ==
    (Finished /\ entry.profile \in CredentialProfiles /\ ~entry.key_seen) =>
        /\ ~Invoked
        /\ signals = OneSignal
        /\ MissingCredential <=> (entry.host # NULL /\ entry.identity # NULL)
        /\ MissingRequiredOption <=> (entry.host = NULL \/ entry.identity = NULL)
        /\ MissingCredential => peer_destroys = 1
C2_Witness ==
    /\ Finished
    /\ entry.profile = PROF_V1_XAUTH
    /\ ~entry.key_seen
    /\ entry.server # NULL
    /\ Len(entry.local_ts) > 1
    /\ Len(entry.remote_ts) > 0
    /\ MissingCredential

\* C3: the controller's initiate is invoked at most once, and only after
\* all validation passed: host set, local identity set, auth assembly
\* succeeded; never for a credential-requiring profile without credential.
C3_InitiateOnceAfterValidation ==
    /\ Len(initiated) <= 1
    /\ Invoked =>
          /\ Ran
          /\ entry.host # NULL
          /\ entry.identity # NULL
          /\ ~(this.profile \in CredentialProfiles /\ ~entry.key_seen)
          /\ ~MissingCredential
          /\ peer_destroys = 0
          /\ Len(initiated[1].peer_cfg.auth_cfgs) >= 2
    /\ (Ran /\ (entry.host = NULL \/ entry.identity = NULL)) => ~Invoked
C3_Witness ==
    /\ Invoked
    /\ pc = "done"
    /\ entry.profile = PROF_V2_PUB_EAP

\* C4: a failing run (missing host, missing local identity, auth assembly
\* failure, non-success of the controller) signals the pid captured at
\* creation exactly once; a run whose controller call succeeds never does.
C4_TerminateOnce ==
    /\ Len(signals) <= 1
    /\ \A i \in 1..Len(signals) : signals[i] = [pid |-> ownpid, sig |-> "SIGUSR1"]
    /\ Finished =>
          /\ entry.host = NULL => signals = OneSignal
          /\ entry.identity = NULL => signals = OneSignal
          /\ peer_destroys > 0 => signals = OneSignal
          /\ (Invoked /\ ctrl_status # "SUCCESS") => signals = OneSignal
          /\ ctrl_status = "SUCCESS" => signals = << >>
    /\ pc = "blocked" => signals = << >>
C4_Witness ==
    /\ pc = "done"
    /\ ctrl_status = "FAILED"
    /\ signals = OneSignal

\* the builder with the profile that inference is specified to pick
C5_Explicit(t) ==
    [t EXCEPT !.profile = IF t.key_seen THEN PROF_V2_PUB ELSE PROF_V2_EAP]
\* C5: a run entered with the profile undefined assembles what a run with
\* the inferred profile requested explicitly assembles, all other inputs
\* equal: the authentication sequence and version of explicit v2-eap
\* without credential, of explicit v2-pubkey with one.
C5_UndefinedAsInferred ==
    (Ran /\ entry.profile = PROF_UNDEF) =>
        /\ \E port \in Ports :
              LET e == initiate(C5_Explicit(entry), port)
              IN  /\ peer_cfg = e.peer_cfg
                  /\ child_cfg = e.child_cfg
                  /\ Invoked = e.call
                  /\ Invoked => initiated[1] = [peer_cfg |-> e.peer_cfg,
                                                child_cfg |-> e.child_cfg]
                  /\ dbg = e.dbg
        /\ Invoked =>
              /\ Sides(peer_cfg.auth_cfgs) = C1_Table(C5_Explicit(entry).profile)
              /\ peer_cfg.ike_cfg.version = "IKEV2"
C5_Witness ==
    /\ Invoked
    /\ entry.profile = PROF_UNDEF
    /\ entry.key_seen
    /\ this.profile = PROF_V2_PUB

\* C6: for the profiles v2-eap, v1-xauth-psk, v1-hybrid and for an
\* undefined profile, auth assembly never fails with MissingCredential,
\* with or without a credential.
C6_OnlyFourGated ==
    (Ran /\ entry.profile \in {PROF_UNDEF, PROF_V2_EAP, PROF_V1_XAUTH_PSK, PROF_V1_HYBRID}) =>
        /\ ~MissingCredential
        /\ peer_destroys = 0
        /\ (entry.host # NULL /\ entry.identity # NULL) => Invoked
C6_Witness ==
    /\ Invoked
    /\ entry.profile = PROF_V1_HYBRID
    /\ ~entry.key_seen

\* C7: the workflow runs at most once: the job is queued once, at
\* creation, and every path through initiate returns the no-requeue
\* result, so it is never queued again.
C7_RunsOnce ==
    /\ runs <= 1
    /\ Finished => job_ret = "JOB_REQUEUE_NONE"
    /\ pc = "queued" => runs = 0
    /\ pc # "queued" => runs = 1
C7_Witness ==
    /\ pc = "done"
    /\ runs = 1
    /\ ctrl_status = "FAILED"
    /\ job_ret = "JOB_REQUEUE_NONE"

\* C8: draining an empty remote set yields exactly one remote selector,
\* 0.0.0.0-255.255.255.255 with ports 0-65535; when a remote selector was
\* added, none is synthesized and the remote list is the added selectors.
C8_RemoteDefault ==
    child_cfg # NULL_PTR =>
        IF Len(entry.remote_ts) = 0
        THEN /\ Len(child_cfg.remote_ts) = 1
             /\ child_cfg.remote_ts[1].type = "TS_IPV4_ADDR_RANGE"
             /\ child_cfg.remote_ts[1].from = <<0, 0, 0, 0>>
             /\ child_cfg.remote_ts[1].to = <<255, 255, 255, 255>>
             /\ child_cfg.remote_ts[1].from_port = 0
             /\ child_cfg.remote_ts[1].to_port = 65535
             /\ ~child_cfg.remote_ts[1].dynamic
        ELSE child_cfg.remote_ts = entry.remote_ts
C8_Witness ==
    /\ child_cfg # NULL_PTR
    /\ Len(entry.remote_ts) = 0
    /\ Len(entry.local_ts) > 1

\* a list holds a dynamic selector
HasDynamic(list) == \E i \in 1..Len(list) : list[i].dynamic
\* C9: the local set holds the seeded dynamic selector in every state
\* reached from creation by option handling, so the local list of any
\* assembled traffic-policy configuration is non-empty and holds it.
C9_LocalHasDynamic ==
    /\ (~Ran /\ proc = "running") => HasDynamic(this.local_ts)
    /\ (Ran /\ child_cfg = NULL_PTR /\ ~destroyed) => HasDynamic(this.local_ts)
    /\ Ran => HasDynamic(entry.local_ts)
    /\ child_cfg # NULL_PTR =>
          /\ Len(child_cfg.local_ts) >= 1
          /\ HasDynamic(child_cfg.local_ts)
C9_Witness ==
    /\ child_cfg # NULL_PTR
    /\ Len(child_cfg.local_ts) = 1
    /\ \A i \in 1..Len(ts_log) : ts_log[i][1] # "CMD_OPT_LOCAL_TS"

\* the selectors of the options of one side in ts_log, in handling order
RECURSIVE Handled(_, _)
Handled(log, opt) ==
    IF log = << >> THEN << >>
    ELSE (IF Head(log)[1] = opt
          THEN << traffic_selector_create_from_cidr(Head(log)[2], 0, 0, 65535) >>
          ELSE << >>) \o Handled(Tail(log), opt)
\* C10: insertion order is preserved: the local list of the traffic-policy
\* configuration is the dynamic selector followed by the local selectors in
\* the order their options were handled, the remote list is the remote
\* selectors in the order their options were handled; each list depends
\* only on the order of the options of its own side.
C10_InsertionOrder ==
    /\ (~Ran /\ proc = "running") =>
          /\ this.local_ts = << traffic_selector_create_dynamic(0, 0, 65535) >>
                                 \o Handled(ts_log, "CMD_OPT_LOCAL_TS")
          /\ this.remote_ts = Handled(ts_log, "CMD_OPT_REMOTE_TS")
    /\ child_cfg # NULL_PTR =>
          /\ child_cfg.local_ts = << traffic_selector_create_dynamic(0, 0, 65535) >>
                                      \o Handled(ts_log, "CMD_OPT_LOCAL_TS")
          /\ Handled(ts_log, "CMD_OPT_REMOTE_TS") # << >> =>
                child_cfg.remote_ts = Handled(ts_log, "CMD_OPT_REMOTE_TS")
C10_Witness ==
    /\ child_cfg # NULL_PTR
    /\ ts_log = << <<"CMD_OPT_LOCAL_TS", "10.1.2.3/24">>,
                   <<"CMD_OPT_LOCAL_TS", "0.0.0.0/0">> >>
    /\ Len(child_cfg.local_ts) = 3
    /\ child_cfg.local_ts[2].from = <<10, 1, 2, 0>>
    /\ child_cfg.local_ts[3].from = <<0, 0, 0, 0>>

\* a step in which option handling writes the builder: the builder changes
\* and the step is neither an entry of initiate() nor a destroy()
OptionWrite == this' # this /\ runs' = runs /\ destroyed' = destroyed
C12_DiagnosticBeforeTermination ==
    (signals # << >> \/ proc = "exited") => dbg # << >>

\* an option argument that does not parse: a selector text that is no
\* subnet, a profile name that is not in the name table
C13_Bad(opt, arg) ==
    \/ IsTsOpt(opt) /\ arg = "not-a-subnet"
    \/ opt = "CMD_OPT_PROFILE" /\ arg = "ikev3-pub"
\* C13: a --local-ts/--remote-ts option with unparsable text, or a
\* --profile option with an unrecognized name, terminates the process
\* inside that handle call, after one diagnostic, without adding a selector
\* to either set and without changing the stored profile; the exit is not
\* deferred to the workflow.
C13_ParseErrorsFatal ==
    /\ [][\A opt \in Opts : \A arg \in ArgsOf(opt) :
            (Handle(opt, arg) /\ C13_Bad(opt, arg)) =>
                /\ proc' = "exited"
                /\ this' = this
                /\ ts_log' = ts_log
                /\ Len(dbg') = Len(dbg) + 1
                /\ dbg'[Len(dbg')][2] = arg]_vars
    /\ [][proc' = "exited" =>
            /\ proc = "running"
            /\ this' = this
            /\ ~Ran /\ pc' = "queued" /\ signals' = << >>]_vars
    /\ [](\A i \in 1..Len(this.local_ts) : this.local_ts[i] # NULL_PTR)
    /\ [](\A i \in 1..Len(this.remote_ts) : this.remote_ts[i] # NULL_PTR)
C13_Witness ==
    /\ proc = "exited"
    /\ this.profile = PROF_V1_PUB
    /\ Len(ts_log) = 1
    /\ dbg = << <<"unknown connection profile: %s", "ikev3-pub">> >>

\* C14: in every assembled authentication list each local entry carries
\* the local identity, each remote entry the server identity if a
\* remote-identity option was handled, else the host; the values are those
\* the last handle call for each option stored.
C14_Identities ==
    /\ Invoked =>
          \A i \in 1..Len(initiated[1].peer_cfg.auth_cfgs) :
              LET a == initiated[1].peer_cfg.auth_cfgs[i]
              IN  a.identity = IF a.local THEN entry.identity
                               ELSE IF entry.server # NULL THEN entry.server
                               ELSE entry.host
    /\ (~Ran /\ proc = "running") =>
          /\ \A arg \in Hosts : handle(this, "CMD_OPT_HOST", arg).this.host = arg
          /\ \A arg \in Servers :
                handle(this, "CMD_OPT_REMOTE_IDENTITY", arg).this.server = arg
          /\ \A arg \in Identities :
                handle(this, "CMD_OPT_IDENTITY", arg).this.identity = arg
C14_Witness ==
    /\ Invoked
    /\ entry.host = "gw.example.net"
    /\ entry.server = "server.example.com"
    /\ \E i \in 1..Len(peer_cfg.auth_cfgs) :
          ~peer_cfg.auth_cfgs[i].local
          /\ peer_cfg.auth_cfgs[i].identity = "server.example.com"

\* C15: if the queried local port is the standard IKE port, the remote port
\* of the IKE config is the standard port; for every other local port it
\* is the NAT-traversal port; the local port of the config is always the
\* queried port.
C15_RemotePort ==
    /\ [](peer_cfg # NULL_PTR =>
            /\ peer_cfg.ike_cfg.my_port \in Ports
            /\ peer_cfg.ike_cfg.my_port = IKEV2_UDP_PORT =>
                  peer_cfg.ike_cfg.other_port = IKEV2_UDP_PORT
            /\ peer_cfg.ike_cfg.my_port # IKEV2_UDP_PORT =>
                  peer_cfg.ike_cfg.other_port = IKEV2_NATT_PORT)
    /\ [][\A port \in Ports :
            (Initiate(port) /\ peer_cfg' # NULL_PTR) =>
                peer_cfg'.ike_cfg.my_port = port]_vars
C15_Witness ==
    /\ Invoked
    /\ peer_cfg.ike_cfg.my_port = 51234
    /\ peer_cfg.ike_cfg.other_port = 4500

\* the selectors created for one side by cmd_connection_create() and the
\* option handling so far
C16_Local ==
    << traffic_selector_create_dynamic(0, 0, 65535) >>
        \o Handled(ts_log, "CMD_OPT_LOCAL_TS")
C16_Remote == Handled(ts_log, "CMD_OPT_REMOTE_TS")
\* C16: selector ownership moves, it is not copied: every selector created
\* is held either by the builder's sets or by the traffic-policy
\* configuration, never by both; after create_child_cfg both sets are
\* empty, so a later destroy frees no selector the configuration holds;
\* after a workflow that failed before the drain the selectors are still in
\* the sets and destroy frees them.
C16_Ownership ==
    /\ (child_cfg = NULL_PTR /\ ~destroyed) =>
          /\ this.local_ts = C16_Local
          /\ this.remote_ts = C16_Remote
          /\ freed = << >>
    /\ child_cfg # NULL_PTR =>
          /\ this.local_ts = << >>
          /\ this.remote_ts = << >>
          /\ child_cfg.local_ts = C16_Local
          /\ IF C16_Remote = << >> THEN Len(child_cfg.remote_ts) = 1
             ELSE child_cfg.remote_ts = C16_Remote
          /\ freed = << >>
    /\ (child_cfg = NULL_PTR /\ destroyed) =>
          /\ this.local_ts = << >>
          /\ this.remote_ts = << >>
          /\ freed = C16_Local \o C16_Remote
C16_Witness ==
    /\ destroyed
    /\ child_cfg # NULL_PTR
    /\ Len(child_cfg.local_ts) = 2
    /\ Len(ts_log) = 2
    /\ freed = << >>

\* C17: when auth assembly fails nothing else is consumed: no
\* authentication entry was appended, the peer config is destroyed exactly
\* once and never handed to the controller, no traffic-policy configuration
\* is built and both selector sets are left as they were; a peer config
\* handed to the controller is never destroyed by this core.
C17_AuthFailureFrame ==
    /\ peer_destroys <= 1
    /\ peer_destroys = 1 =>
          /\ peer_cfg.auth_cfgs = << >>
          /\ peer_cfg.child_cfgs = << >>
          /\ ~Invoked
          /\ child_cfg = NULL_PTR
          /\ ~destroyed =>
                /\ this.local_ts = entry.local_ts
                /\ this.remote_ts = entry.remote_ts
    /\ (Ran /\ entry.host # NULL /\ entry.identity # NULL
            /\ entry.profile \in CredentialProfiles /\ ~entry.key_seen) =>
          peer_destroys = 1
    /\ Invoked => peer_destroys = 0
C17_Witness ==
    /\ peer_destroys = 1
    /\ pc = "done"
    /\ ~destroyed
    /\ Len(this.local_ts) = 2
    /\ Len(this.remote_ts) = 1

\* the names of the seven profiles
C18_Names ==
    {"ikev2-pub", "ikev2-eap", "ikev2-pub-eap", "ikev1-pub", "ikev1-xauth",
     "ikev1-xauth-psk", "ikev1-hybrid"}
\* C18: MissingCredential is never raised before the workflow runs: a
\* --profile option for a credential-requiring profile is handled without
\* terminating while the key-seen flag is still false; handling the
\* credential option before or after the profile option leaves the same
\* builder, hence the same outcome of the workflow, which depends on the
\* flag and the profile at entry only; the flag, once set, is never
\* cleared.
C18_CredentialOrder ==
    /\ [](~Ran => (~MissingCredential /\ signals = << >>))
    /\ []((~Ran /\ proc = "running") =>
            \A name \in C18_Names :
                LET p == handle(this, "CMD_OPT_PROFILE", name)
                    k == handle(this, "CMD_OPT_RSA", "key.pem")
                    pk == handle(p.this, "CMD_OPT_RSA", "key.pem")
                    kp == handle(k.this, "CMD_OPT_PROFILE", name)
                IN  /\ ~p.exit /\ ~k.exit /\ ~pk.exit /\ ~kp.exit
                    /\ p.dbg = << >>
                    /\ pk.this = kp.this
                    /\ pk.this.key_seen)
    /\ []((Finished /\ entry.host # NULL /\ entry.identity # NULL) =>
            /\ MissingCredential <=>
                  (entry.profile \in CredentialProfiles /\ ~entry.key_seen)
            /\ Invoked <=> ~MissingCredential)
    /\ [][this.key_seen => this'.key_seen]_vars
C18_Witness ==
    /\ proc = "running"
    /\ ~up
    /\ this.profile = PROF_V2_PUB_EAP
    /\ ~this.key_seen
    /\ dbg = << >>
    /\ signals = << >>

C20_ProfileNamed ==
    /\ this.profile \in PROF_UNDEF..PROF_V1_HYBRID
    /\ \A name \in ProfileArgs :
          LET r == set_profile(this, name)
          IN  ~r.exit =>
                /\ r.this.profile \in PROF_V2_PUB..PROF_V1_HYBRID
                /\ profile_names[r.this.profile - PROF_V2_PUB + 1] = name
    /\ has_case(infer_profile(this))
    /\ \A port \in Ports :
          LET r == add_auth_cfgs(this, create_peer_cfg(this, port))
          IN  /\ r.this.profile \in PROF_V2_PUB..PROF_V1_HYBRID
              /\ ~r.ret =>
                    /\ r.this.profile \in CredentialProfiles
                    /\ ~this.key_seen
                    /\ r.dbg = << <<"missing private key for profile %N",
                                    r.this.profile>> >>
    /\ peer_destroys > 0 => MissingCredential
    /\ (Ran /\ entry.host # NULL /\ entry.identity # NULL) =>
          /\ this.profile \in PROF_V2_PUB..PROF_V1_HYBRID
          /\ Finished => (Invoked \/ MissingCredential)
C20_Witness ==
    /\ Invoked
    /\ entry.profile = PROF_UNDEF
    /\ this.profile = PROF_V2_EAP
    /\ ~entry.key_seen
    /\ peer_destroys = 0

====
